---- MODULE Spec2Model ----
(***************************************************************************)
(* MITRotor momentum models (src/MITRotor/MomentumTheory.py): the four     *)
(* solve() methods, the relaxed fixed-point iteration they share and the   *)
(* Solution Record each of them returns.                                   *)
(*                                                                         *)
(* Numbers.  A float is an integer count of 1/Scale units, with the three  *)
(* IEEE specials NaN, +inf and -inf kept as values of their own.  Every    *)
(* operation rounds to the nearest unit; a result beyond MaxMag overflows  *)
(* to an infinity, as a float does at the end of its range.  A scalar is a *)
(* one-entry array; an array holds one entry per annulus.                  *)
(***************************************************************************)
EXTENDS Integers, Sequences, FiniteSets, TLC

\* ------------------------------------------------------------------ bounds

\* Units per 1.0 of the number grid.
Scale == 1000
\* Longest Ctprime / Ct array (annuli per call) the inputs are drawn from.
MaxAnnuli == 2
\* The non-zero iteration cap a caller supplies as maxiter=...
MaxIterArg == 2
\* A convergence tolerance in grid units: the smallest tolerance the relaxed
\* update can meet on the grid (the update relax*R rounds to zero below it).
TolUnits == 5

\* Largest finite magnitude (in units).
MaxMag == 500 * Scale
PosInf == MaxMag + 1
NegInf == 0 - PosInf
NaN == MaxMag + 2

\* ------------------------------------------------------- float arithmetic

IsNaN(a) == a = NaN
IsFinite(a) == a >= 0 - MaxMag /\ a <= MaxMag
Sgn(a) == IF a > 0 THEN 1 ELSE IF a < 0 THEN 0 - 1 ELSE 0
Clamp(v) == IF v > MaxMag THEN PosInf ELSE IF v < 0 - MaxMag THEN NegInf ELSE v
\* a / b rounded to the nearest integer (b > 0).
RDiv(a, b) == (2 * a + b) \div (2 * b)
SignedInf(s) == IF s > 0 THEN PosInf ELSE NegInf

Neg(a) == IF IsNaN(a) THEN NaN ELSE 0 - a

Add(a, b) ==
  IF IsNaN(a) \/ IsNaN(b) THEN NaN
  ELSE IF ~IsFinite(a) /\ ~IsFinite(b) THEN (IF a = b THEN a ELSE NaN)
  ELSE IF ~IsFinite(a) THEN a
  ELSE IF ~IsFinite(b) THEN b
  ELSE Clamp(a + b)

Sub(a, b) == Add(a, Neg(b))

Mul(a, b) ==
  IF IsNaN(a) \/ IsNaN(b) THEN NaN
  ELSE IF ~IsFinite(a) \/ ~IsFinite(b)
    THEN (IF a = 0 \/ b = 0 THEN NaN ELSE SignedInf(Sgn(a) * Sgn(b)))
  ELSE LET q == a \div Scale
           r == a % Scale
       IN  Clamp(q * b + RDiv(r * b, Scale))

\* A zero divisor is +0: x/0 is an infinity of x's sign, 0/0 is NaN.
Div(a, b) ==
  IF IsNaN(a) \/ IsNaN(b) THEN NaN
  ELSE IF ~IsFinite(a) /\ ~IsFinite(b) THEN NaN
  ELSE IF ~IsFinite(b) THEN 0
  ELSE IF b = 0 THEN (IF a = 0 THEN NaN ELSE SignedInf(Sgn(a)))
  ELSE IF ~IsFinite(a) THEN SignedInf(Sgn(a) * Sgn(b))
  ELSE IF b > 0 THEN Clamp(RDiv(a * Scale, b))
  ELSE Clamp(RDiv((0 - a) * Scale, 0 - b))

RECURSIVE ISqrtIn(_, _, _)
\* The largest r in lo..hi with r*r <= n (hi*hi fits the integer width).
ISqrtIn(n, lo, hi) ==
  IF lo >= hi THEN lo
  ELSE LET mid == (lo + hi + 1) \div 2
       IN  IF mid * mid <= n THEN ISqrtIn(n, mid, hi) ELSE ISqrtIn(n, lo, mid - 1)

Sqrt(a) ==
  IF IsNaN(a) \/ a < 0 THEN NaN
  ELSE IF a = PosInf THEN PosInf
  ELSE ISqrtIn(a * Scale, 0, 23000)

Abs(a) == IF IsNaN(a) THEN NaN ELSE IF a < 0 THEN 0 - a ELSE a

\* a < b as floats compare: false when either side is NaN.
Lt(a, b) == ~IsNaN(a) /\ ~IsNaN(b) /\ a < b
Gt(a, b) == Lt(b, a)

Pi == (3142 * Scale) \div 1000
HalfPi == Pi \div 2
ArctanK == (281 * Scale) \div 1000

\* arctan, by z/(1+0.281 z^2) on [-1,1] and +-pi/2 - z/(z^2+0.281) outside.
Arctan(z) ==
  IF IsNaN(z) THEN NaN
  ELSE IF z = PosInf THEN HalfPi
  ELSE IF z = NegInf THEN 0 - HalfPi
  ELSE IF Abs(z) <= Scale THEN Div(z, Add(Scale, Mul(ArctanK, Mul(z, z))))
  ELSE Sub(IF z > 0 THEN HalfPi ELSE 0 - HalfPi, Div(z, Add(Mul(z, z), ArctanK)))

\* np.sign
Sign(a) == IF IsNaN(a) THEN NaN ELSE Sgn(a) * Scale

Num(n) == n * Scale
Frac(n, d) == (n * Scale) \div d

\* ------------------------------------------------------------ array helpers

Fill(n, c) == [i \in 1..n |-> c]
\* np.zeros_like / np.nan * np.zeros_like on one array and on a stack of arrays
ZerosLike(v) == Fill(Len(v), 0)
NaNLike(v) == Fill(Len(v), NaN)
NaNLikeStack(x) == [k \in 1..Len(x) |-> NaNLike(x[k])]
AllNaN(v) == \A i \in 1..Len(v) : IsNaN(v[i])
AllEq(v, c) == \A i \in 1..Len(v) : v[i] = c

\* np.max over an array (inputs hold no NaN)
ArrMax(v) == CHOOSE m \in {v[i] : i \in 1..Len(v)} : \A i \in 1..Len(v) : v[i] <= m

\* ------------------------------------------------------------------ angles

\* The yaw angles of the inputs, by name, with their cosine and sine.
YawVals == {"zero", "tilt"}
Cos(yw) == IF yw = "zero" THEN Num(1) ELSE Frac(4, 5)
Sin(yw) == IF yw = "zero" THEN 0 ELSE Frac(3, 5)
Cos2(yw) == Mul(Cos(yw), Cos(yw))

\* --------------------------------------------------------- Solution Record

\* MomentumSolution's field defaults.
DefaultDpNL == <<0>>
DefaultNiter == 1
DefaultConverged == TRUE
DefaultBeta == 0

MomentumSolution(Ct_, yw, an, u4, v4, dp, dpNL, nit, conv, bet) ==
  [Ctprime |-> Ct_, yaw |-> yw, an |-> an, u4 |-> u4, v4 |-> v4, dp |-> dp,
   dp_NL |-> dpNL, niter |-> nit, converged |-> conv, beta |-> bet]

NoRecord == [none |-> TRUE]

\* ------------------------------------------------------- closed-form model

LimitedHeckA(C, yw) == Div(Mul(C, Cos2(yw)), Add(Num(4), Mul(C, Cos2(yw))))
LimitedHeckU4(C, yw) ==
  Div(Sub(Num(4), Mul(C, Cos2(yw))), Add(Num(4), Mul(C, Cos2(yw))))
LimitedHeckV4(C, yw) ==
  Div(Neg(Mul(Mul(Mul(Num(4), C), Sin(yw)), Cos2(yw))),
      Mul(Add(Num(4), Mul(C, Cos2(yw))), Add(Num(4), Mul(C, Cos2(yw)))))

\* LimitedHeck.solve: every keyword option lands in **kwargs and is dropped.
LimitedHeckSolution(C, yw) ==
  LET a == [i \in 1..Len(C) |-> LimitedHeckA(C[i], yw)]
      u4 == [i \in 1..Len(C) |-> LimitedHeckU4(C[i], yw)]
      v4 == [i \in 1..Len(C) |-> LimitedHeckV4(C[i], yw)]
      dp == [i \in 1..Len(C) |-> Mul(0, a[i])]
  IN  MomentumSolution(C, yw, a, u4, v4, dp,
                       DefaultDpNL, DefaultNiter, DefaultConverged, DefaultBeta)

\* ------------------------------------------------------------------ inputs

ModelNames == {"LimitedHeck", "Heck", "UnifiedMomentum", "ThrustBasedUnified"}
OptionNames == {"x0", "eps", "relax", "maxiter"}

\* Loading coefficients Ctprime (zero, nominal, supercritical) and
\* disk-averaged thrust coefficients Ct (light, nominal) the calls are made with.
CtprimeVals == {0, Frac(1, 2), Num(16)}
CtVals == {Frac(1, 5), Frac(1, 2)}
Arrays(S) == UNION {[1..n -> S] : n \in 1..MaxAnnuli}

\* The keyword options of one call: the names supplied and their values (a value
\* is 0 where the option is not supplied, and is then never read).
Opt(s, e, r, m) == [supplied |-> s, eps |-> e, relax |-> r, maxiter |-> m]
Configs ==
  { Opt({}, 0, 0, 0),
    Opt({"x0"}, 0, 0, 0),
    Opt({"eps"}, 0, 0, 0),
    Opt({"eps"}, 10 * TolUnits, 0, 0),
    Opt({"relax"}, 0, Frac(1, 2), 0),
    Opt({"maxiter"}, 0, 0, 0),
    Opt({"maxiter"}, 0, 0, MaxIterArg) }

\* The initial guess a caller passes as x0=...: k components for n annuli.
X0Arg(k, n) ==
  [j \in 1..k |-> Fill(n, IF j = 1 THEN Frac(1, 10)
                          ELSE IF j = 2 THEN Frac(9, 10)
                          ELSE IF j = 3 THEN Frac(1, 10)
                          ELSE IF j = 4 THEN 0 ELSE Num(1))]

\* Corrections the pressure field's table may hold.
PressureVals == {Frac(1, 100)}

\* ------------------------------------------------ iterative coupled model

\* Heck.initial_condition: the closed-form solution's (an, u4, v4).
HeckInitialCondition(C, yw) ==
  LET sol == LimitedHeckSolution(C, yw) IN <<sol.an, sol.u4, sol.v4>>

\* relax = 0.9 if np.max(Ctprime) > 15 else 0.1
HeckRelax(C) == IF Gt(ArrMax(C), Num(15)) THEN Frac(9, 10) ELSE Frac(1, 10)

\* Heck.residual on one annulus.
HeckEa(a, u4, v4, C, yw) ==
  Sub(Sub(Num(1), Div(Sqrt(Sub(Sub(Num(1), Mul(u4, u4)), Mul(v4, v4))),
                      Mul(Sqrt(C), Cos(yw)))), a)
HeckEu4(a, u4, v4, C, yw) ==
  Sub(Sub(Num(1), Mul(Mul(Mul(Frac(1, 2), C), Sub(Num(1), a)), Cos2(yw))), u4)
\* Faulty variant of HeckEv4: the cosine of the yaw where the lateral residual takes
\* its sine.
HeckEv4_cos(a, u4, v4, C, yw) ==
  Sub(Mul(Mul(Mul(Mul(Neg(Frac(1, 4)), C),
                  Mul(Sub(Num(1), a), Sub(Num(1), a))), Cos(yw)), Cos2(yw)), v4)
HeckEv4(a, u4, v4, C, yw) ==
  Sub(Mul(Mul(Mul(Mul(Neg(Frac(1, 4)), C),
                  Mul(Sub(Num(1), a), Sub(Num(1), a))), Sin(yw)), Cos2(yw)), v4)

HeckResidual(x, C, yw) ==
  << [i \in 1..Len(C) |-> HeckEa(x[1][i], x[2][i], x[3][i], C[i], yw)],
     [i \in 1..Len(C) |-> HeckEu4(x[1][i], x[2][i], x[3][i], C[i], yw)],
     [i \in 1..Len(C) |-> HeckEv4(x[1][i], x[2][i], x[3][i], C[i], yw)] >>

\* ---------------------------------------------------------- unified model

\* UnifiedMomentum.__init__: beta=0.1403
Beta == Frac(1403, 10000)

\* UnifiedMomentum.initial_condition on one annulus (v4 with a positive sign).
UnifiedInitV4(C, yw) ==
  Div(Mul(Mul(Mul(Num(4), C), Sin(yw)), Cos2(yw)),
      Mul(Add(Num(4), Mul(C, Cos2(yw))), Add(Num(4), Mul(C, Cos2(yw)))))

UnifiedInitialCondition(C, yw) ==
  << [i \in 1..Len(C) |-> LimitedHeckA(C[i], yw)],
     [i \in 1..Len(C) |-> LimitedHeckU4(C[i], yw)],
     [i \in 1..Len(C) |-> UnifiedInitV4(C[i], yw)],
     ZerosLike(C) >>

\* The near-wake length x0 of residual() and _nonlinear_pressure().
NearWake(an, u4, yw) ==
  Div(Mul(Cos(yw), Sqrt(Div(Mul(Sub(Num(1), an), Cos(yw)), Add(Num(1), u4)))),
      Mul(Div(Num(2), Add(Num(1), u4)),
          Div(Mul(Beta, Sub(Num(1), u4)), Num(2))))

\* CT = Ctprime * (1 - an)**2 * cos(yaw)**2
DiskCT(C, an, yw) == Mul(Mul(C, Mul(Sub(Num(1), an), Sub(Num(1), an))), Cos2(yw))

\* The arguments _nonlinear_pressure hands to get_pressure: (CT / 2, x0).
PressureArgs(C, yw, an, u4) ==
  << [i \in 1..Len(an) |-> Div(DiskCT(C[i], an[i], yw), Num(2))],
     [i \in 1..Len(an) |-> NearWake(an[i], u4[i], yw)] >>

\* NonlinearADPressureField.get_pressure: a lookup in the field's table, here
\* a table holding the one correction pf; not-a-number in, not-a-number out.
GetPressure(args, pf) ==
  [i \in 1..Len(args[1]) |->
     IF IsNaN(args[1][i]) \/ IsNaN(args[2][i]) THEN NaN ELSE pf]

\* UnifiedMomentum.residual on one annulus, p_g being the pressure there.
UnifiedEan(an, u4, v4, dp, C, yw) ==
  Sub(Sub(Num(1),
          Sqrt(Add(Div(Neg(dp), Mul(Mul(Frac(1, 2), C), Cos2(yw))),
                   Div(Sub(Sub(Num(1), Mul(u4, u4)), Mul(v4, v4)),
                       Mul(C, Cos2(yw)))))), an)
UnifiedEu4(an, u4, v4, dp, C, yw) ==
  LET t == Sub(Mul(Mul(Mul(Frac(1, 2), C), Sub(Num(1), an)), Cos2(yw)), Num(1))
  IN  Sub(Add(Add(Mul(Mul(Mul(Neg(Frac(1, 4)), C), Sub(Num(1), an)), Cos2(yw)),
                  Frac(1, 2)),
              Mul(Frac(1, 2), Sqrt(Sub(Mul(t, t), Mul(Num(4), dp))))), u4)
UnifiedEv4(an, u4, v4, dp, C, yw) ==
  Sub(Mul(Mul(Mul(Mul(Neg(Frac(1, 4)), C),
                  Mul(Sub(Num(1), an), Sub(Num(1), an))), Sin(yw)), Cos2(yw)), v4)
UnifiedEdp(an, u4, v4, dp, C, yw, p_g) ==
  Sub(Add(Mul(Mul(Mul(Mul(Neg(Div(Num(1), Mul(Num(2), Pi))), C),
                      Mul(Sub(Num(1), an), Sub(Num(1), an))), Cos2(yw)),
              Arctan(Div(Num(1), NearWake(an, u4, yw)))),
          p_g), dp)

\* UnifiedMomentum.residual: (e_an, e_u4, e_v4, e_dp); p_g is what its one
\* call of _nonlinear_pressure returned.
UnifiedResidual(x, C, yw, p_g) ==
  << [i \in 1..Len(x[1]) |-> UnifiedEan(x[1][i], x[2][i], x[3][i], x[4][i], C[i], yw)],
     [i \in 1..Len(x[1]) |-> UnifiedEu4(x[1][i], x[2][i], x[3][i], x[4][i], C[i], yw)],
     [i \in 1..Len(x[1]) |-> UnifiedEv4(x[1][i], x[2][i], x[3][i], x[4][i], C[i], yw)],
     [i \in 1..Len(x[1]) |->
        UnifiedEdp(x[1][i], x[2][i], x[3][i], x[4][i], C[i], yw, p_g[i])] >>

\* ----------------------------------------------------- thrust-based model

\* ThrustBasedUnified.initial_condition
ThrustInitialCondition(Ct, yw) ==
  << [i \in 1..Len(Ct) |-> Mul(Frac(1, 2), Ct[i])],
     [i \in 1..Len(Ct) |-> Sub(Num(1), Ct[i])],
     ZerosLike(Ct),
     ZerosLike(Ct),
     [i \in 1..Len(Ct) |-> Sign(Ct[i])] >>

\* e_Ctprime = Ct / ((1 - an)**2 * cos(yaw)**2) - Ctprime
ThrustECtprime(an, C, Ct, yw) ==
  Sub(Div(Ct, Mul(Mul(Sub(Num(1), an), Sub(Num(1), an)), Cos2(yw))), C)

\* ThrustBasedUnified.residual: the unified residual at the Ctprime iterate,
\* and the thrust equation.
ThrustResidual(x, Ct, yw, p_g) ==
  LET r == UnifiedResidual(<<x[1], x[2], x[3], x[4]>>, x[5], yw, p_g)
  IN  << r[1], r[2], r[3], r[4],
         [i \in 1..Len(Ct) |-> ThrustECtprime(x[1][i], x[5][i], Ct[i], yw)] >>

\* ------------------------------------------------- fixed-point iteration

\* fixedpointiteration's own defaults for the arguments a model leaves out.
EngineEpsDefault == TolUnits
EngineMaxiterDefault == 100

\* The engine's state as a call of fixedpointiteration(f, x0, args, kwargs,
\* eps, maxiter, relax) starts.
FixedPointStart(x0, eps, relax, maxiter, kwargs) ==
  [x0 |-> x0, eps |-> eps, relax |-> relax, maxiter |-> maxiter,
   kwargs |-> kwargs, x |-> x0, niter |-> 0, converged |-> FALSE, res |-> <<>>]

\* x_next = x + relax * R(x), elementwise.
Relaxed(x, r, relax) ==
  [k \in 1..Len(x) |-> [i \in 1..Len(x[k]) |-> Add(x[k][i], Mul(relax, r[k][i]))]]

\* Faulty variant of Below: a maximum that skips not-a-number entries.
Below_nanmax(r, eps) ==
  \A k \in 1..Len(r) : \A i \in 1..Len(r[k]) :
     IsNaN(r[k][i]) \/ Lt(Abs(r[k][i]), eps)
\* The maximum elementwise absolute residual is below eps.
Below(r, eps) ==
  \A k \in 1..Len(r) : \A i \in 1..Len(r[k]) : Lt(Abs(r[k][i]), eps)

\* ------------------------------------------------------------- the solves

\* Heck.solve's eps=0.00001, in grid units.
HeckEpsDefault == TolUnits
\* UnifiedMomentum.solve's maxiter=400, relax=0.25
UnifiedMaxiterDefault == 400
UnifiedRelaxDefault == Frac(1, 4)
\* ThrustBasedUnified.solve's relax=0.25, maxiter=5000
ThrustMaxiterDefault == 5000
ThrustRelaxDefault == Frac(1, 4)

UnifiedFamily == {"UnifiedMomentum", "ThrustBasedUnified"}

VARIABLES
  pc,        \* where the call is: call, iterate, return, done or raised
  model,     \* the model solve() is called on
  load,      \* its first argument: Ctprime (Ct for the thrust-based model)
  yaw,       \* its second argument
  opts,      \* its keyword options
  pfield,    \* the correction in the pressure field's table
  eng,       \* the fixed-point iteration: its arguments and its progress
  nresid,    \* residual evaluations so far
  pcalls,    \* get_pressure calls so far
  lastcall,  \* the arguments of the latest get_pressure call
  rec        \* the Solution Record returned, NoRecord before

vars == <<pc, model, load, yaw, opts, pfield, eng, nresid, pcalls, lastcall, rec>>
inputs == <<model, load, yaw, opts, pfield>>

NoEngine == [none |-> TRUE]

Init ==
  /\ pc = "call"
  /\ model \in ModelNames
  /\ load \in (IF model = "ThrustBasedUnified" THEN Arrays(CtVals)
                ELSE Arrays(CtprimeVals))
  /\ yaw \in YawVals
  /\ opts \in Configs
  /\ pfield \in (IF model \in UnifiedFamily THEN PressureVals ELSE {0})
  /\ eng = NoEngine
  /\ nresid = 0
  /\ pcalls = 0
  /\ lastcall = <<>>
  /\ rec = NoRecord

Given(name) == name \in opts.supplied

\* LimitedHeck.solve
LimitedHeckSolve ==
  /\ pc = "call" /\ model = "LimitedHeck"
  /\ rec' = LimitedHeckSolution(load, yaw)
  /\ pc' = "done"
  /\ UNCHANGED <<inputs, eng, nresid, pcalls, lastcall>>

\* Heck.solve up to its call of fixedpointiteration: x0 and eps are its own
\* parameters, relax and maxiter fall into **kwargs and go nowhere.
HeckX0 == IF Given("x0") THEN X0Arg(3, Len(load)) ELSE HeckInitialCondition(load, yaw)
HeckEps == IF Given("eps") THEN opts.eps ELSE HeckEpsDefault
HeckCall ==
  /\ pc = "call" /\ model = "Heck"
  /\ eng' = FixedPointStart(HeckX0, HeckEps, HeckRelax(load), EngineMaxiterDefault, {})
  /\ pc' = "iterate"
  /\ UNCHANGED <<inputs, nresid, pcalls, lastcall, rec>>

\* UnifiedMomentum.solve(Ctprime, yaw, x0=None, maxiter=400, relax=0.25) up to
\* its call of fixedpointiteration: eps is no parameter of it (a TypeError),
\* and x0 is overwritten by the initial condition.
UnifiedX0 == UnifiedInitialCondition(load, yaw)
UnifiedMaxiter == IF Given("maxiter") THEN opts.maxiter ELSE UnifiedMaxiterDefault
UnifiedRelax == IF Given("relax") THEN opts.relax ELSE UnifiedRelaxDefault
UnifiedCall ==
  /\ pc = "call" /\ model = "UnifiedMomentum"
  /\ IF Given("eps")
       THEN pc' = "raised" /\ UNCHANGED eng
       ELSE /\ eng' = FixedPointStart(UnifiedX0, EngineEpsDefault, UnifiedRelax,
                                      UnifiedMaxiter, {})
            /\ pc' = "iterate"
  /\ UNCHANGED <<inputs, nresid, pcalls, lastcall, rec>>

\* ThrustBasedUnified.solve(Ct, yaw, x0=None, relax=0.25, maxiter=5000,
\* **kwargs) up to its call of fixedpointiteration: x0 is overwritten, and
\* eps falls into **kwargs, which is handed on as kwargs=kwargs.
ThrustX0 == ThrustInitialCondition(load, yaw)
ThrustMaxiter == IF Given("maxiter") THEN opts.maxiter ELSE ThrustMaxiterDefault
ThrustRelax == IF Given("relax") THEN opts.relax ELSE ThrustRelaxDefault
ThrustKwargs == opts.supplied \ {"x0", "relax", "maxiter"}
ThrustCall ==
  /\ pc = "call" /\ model = "ThrustBasedUnified"
  /\ eng' = FixedPointStart(ThrustX0, EngineEpsDefault, ThrustRelax,
                            ThrustMaxiter, ThrustKwargs)
  /\ pc' = "iterate"
  /\ UNCHANGED <<inputs, nresid, pcalls, lastcall, rec>>

\* What the residual's one call of _nonlinear_pressure passes to get_pressure
\* at the iterate x (the thrust-based residual with its Ctprime iterate).
ResidualPressureArgs(x) ==
  IF model = "ThrustBasedUnified" THEN PressureArgs(x[5], yaw, x[1], x[2])
  ELSE PressureArgs(load, yaw, x[1], x[2])

\* self.residual(x, *args) of the model being solved.
Residual(x) ==
  IF model = "Heck" THEN HeckResidual(x, load, yaw)
  ELSE IF model = "UnifiedMomentum"
    THEN UnifiedResidual(x, load, yaw, GetPressure(ResidualPressureArgs(x), pfield))
  ELSE ThrustResidual(x, load, yaw, GetPressure(ResidualPressureArgs(x), pfield))

\* One pass of the engine's loop: evaluate the residual (with kwargs handed
\* on to it: residual(x, Ct, yaw) takes none, a TypeError), step, count,
\* and stop as converged when the residual is below eps.
EngineIterate ==
  /\ pc = "iterate" /\ eng.niter < eng.maxiter
  /\ IF eng.kwargs # {}
       THEN pc' = "raised" /\ UNCHANGED <<eng, nresid, pcalls, lastcall>>
       ELSE \E r \in {Residual(eng.x)} :
            LET ok == Below(r, eng.eps)
            IN  /\ eng' = [eng EXCEPT !.x = Relaxed(eng.x, r, eng.relax),
                                      !.niter = @ + 1,
                                      !.converged = ok,
                                      !.res = r]
                /\ pc' = IF ok THEN "return" ELSE "iterate"
                /\ nresid' = nresid + 1
                /\ pcalls' = IF model \in UnifiedFamily THEN pcalls + 1 ELSE pcalls
                /\ lastcall' = IF model \in UnifiedFamily
                                 THEN ResidualPressureArgs(eng.x) ELSE lastcall
  /\ UNCHANGED <<inputs, rec>>

\* maxiter passes made without meeting the tolerance: converged = false.
EngineExhaust ==
  /\ pc = "iterate" /\ eng.niter >= eng.maxiter
  /\ eng' = [eng EXCEPT !.converged = FALSE]
  /\ pc' = "return"
  /\ UNCHANGED <<inputs, nresid, pcalls, lastcall, rec>>

\* Heck.solve after the engine: a, u4, v4 = sol.x if sol.converged else
\* np.nan * np.zeros_like(x0); dp = np.zeros_like(a).
\* The residuals of annulus i alone are below eps.
AnnulusBelow(r, i, eps) == r # <<>> /\ \A k \in 1..Len(r) : Lt(Abs(r[k][i]), eps)
\* Faulty variant of HeckState: not-a-number only for the annuli that did not converge.
HeckState_perAnnulus(e) ==
  [k \in 1..Len(e.x) |-> [i \in 1..Len(e.x[k]) |->
     IF e.converged \/ AnnulusBelow(e.res, i, e.eps) THEN e.x[k][i] ELSE NaN]]
HeckState(e) == IF e.converged THEN e.x ELSE NaNLikeStack(e.x0)
HeckDp(a) == ZerosLike(a)
HeckReturn ==
  /\ pc = "return" /\ model = "Heck"
  /\ LET st == HeckState(eng)
     IN  rec' = MomentumSolution(load, yaw, st[1], st[2], st[3], HeckDp(st[1]),
                                 DefaultDpNL, eng.niter, eng.converged, DefaultBeta)
  /\ pc' = "done"
  /\ UNCHANGED <<inputs, eng, nresid, pcalls, lastcall>>

\* UnifiedMomentum.solve after the engine: the state or not-a-number, then
\* p_g = self._nonlinear_pressure(Ctprime, yaw, a, u4) for dp_NL.
\* Faulty variant of UnifiedState: the last iterate whether converged or not.
UnifiedState_raw(e) == e.x
UnifiedState(e) == IF e.converged THEN e.x ELSE NaNLikeStack(e.x0)
\* Faulty variant of UnifiedReturn: no diagnostic pressure call, dp_NL left at its default.
UnifiedReturn_noDiag ==
  /\ pc = "return" /\ model = "UnifiedMomentum"
  /\ LET st == UnifiedState(eng)
     IN  rec' = MomentumSolution(load, yaw, st[1], st[2], st[3], st[4],
                                 DefaultDpNL, eng.niter, eng.converged, Beta)
  /\ pc' = "done"
  /\ UNCHANGED <<inputs, eng, nresid, pcalls, lastcall>>
UnifiedReturn ==
  /\ pc = "return" /\ model = "UnifiedMomentum"
  /\ LET st == UnifiedState(eng)
         args == PressureArgs(load, yaw, st[1], st[2])
     IN  /\ rec' = MomentumSolution(load, yaw, st[1], st[2], st[3], st[4],
                                    GetPressure(args, pfield), eng.niter,
                                    eng.converged, Beta)
         /\ pcalls' = pcalls + 1
         /\ lastcall' = args
  /\ pc' = "done"
  /\ UNCHANGED <<inputs, eng, nresid>>

\* ThrustBasedUnified.solve after the engine: a, u4, v4, dp, Ctprime = sol.x,
\* dp_NL left at its default.
\* Faulty variant of ThrustState: not-a-number on failure, as the other models do.
ThrustState_nan(e) == IF e.converged THEN e.x ELSE NaNLikeStack(e.x0)
ThrustState(e) == e.x
ThrustReturn ==
  /\ pc = "return" /\ model = "ThrustBasedUnified"
  /\ LET st == ThrustState(eng)
     IN  rec' = MomentumSolution(st[5], yaw, st[1], st[2], st[3], st[4],
                                 DefaultDpNL, eng.niter, eng.converged, Beta)
  /\ pc' = "done"
  /\ UNCHANGED <<inputs, eng, nresid, pcalls, lastcall>>

Next ==
  \/ LimitedHeckSolve
  \/ HeckCall
  \/ UnifiedCall
  \/ ThrustCall
  \/ EngineIterate
  \/ EngineExhaust
  \/ HeckReturn
  \/ UnifiedReturn
  \/ ThrustReturn

Spec == Init /\ [][Next]_vars

\* ------------------------------------------------------------- properties

Iterative == {"Heck", "UnifiedMomentum", "ThrustBasedUnified"}
Done == pc = "done"
HasEngine == model \in Iterative /\ pc \in {"iterate", "return", "done"}
\* Components of the state vector the model iterates on.
Dim == IF model = "Heck" THEN 3 ELSE IF model = "UnifiedMomentum" THEN 4 ELSE 5
AnyNaN(r) == \E k \in 1..Len(r) : \E i \in 1..Len(r[k]) : IsNaN(r[k][i])
ZeroOrNaN(v) == \A i \in 1..Len(v) : v[i] = 0 \/ IsNaN(v[i])

\* C1 (as claimed): when the engine reports converged=false to Heck.solve, the
\* record has converged=false and an, u4, v4 and dp are all not-a-number.
C1_HeckFailureAllNaN ==
  (Done /\ model = "Heck" /\ ~eng.converged) =>
     /\ rec.converged = FALSE
     /\ AllNaN(rec.an) /\ AllNaN(rec.u4) /\ AllNaN(rec.v4) /\ AllNaN(rec.dp)

\* C2: when the engine reports converged=false to UnifiedMomentum.solve, the
\* record has converged=false, an, u4, v4, dp not-a-number, Ctprime and yaw the
\* caller's, niter the engine's count and beta the model's; when it reports
\* converged=true the record's an, u4, v4, dp are the engine's final state.
C2_UnifiedRecord ==
  (Done /\ model = "UnifiedMomentum") =>
     /\ ~eng.converged =>
          /\ rec.converged = FALSE
          /\ AllNaN(rec.an) /\ AllNaN(rec.u4) /\ AllNaN(rec.v4) /\ AllNaN(rec.dp)
          /\ rec.Ctprime = load /\ rec.yaw = yaw
          /\ rec.niter = eng.niter /\ rec.beta = Beta
     /\ eng.converged =>
          /\ rec.converged = TRUE
          /\ rec.an = eng.x[1] /\ rec.u4 = eng.x[2]
          /\ rec.v4 = eng.x[3] /\ rec.dp = eng.x[4]

\* C2's case: a unified solve cut short by maxiter, whose finite last iterate
\* the record replaced by not-a-number.
C2_Witness ==
  /\ Done /\ model = "UnifiedMomentum"
  /\ ~eng.converged /\ eng.niter = MaxIterArg
  /\ ~AnyNaN(eng.x) /\ AllNaN(rec.an) /\ AllNaN(rec.dp)

\* C3 (as claimed): no solve ends in an exception, and a returned record's
\* converged flag alone tells a failed solve from a successful one.
C3_SolveNeverRaises ==
  /\ pc # "raised"
  /\ Done => /\ rec # NoRecord
             /\ rec.converged = (model = "LimitedHeck" \/ eng.converged)

\* C4 (as claimed): in each iterative solve, a supplied x0 is the initial state
\* handed to the engine and supplied eps, relax and maxiter are the tolerance,
\* relaxation factor and iteration cap handed to it.
C4_OptionsAreUsed ==
  /\ (model \in Iterative /\ opts.supplied # {}) => pc # "raised"
  /\ (model \in Iterative /\ HasEngine) =>
        /\ Given("x0") => eng.x0 = X0Arg(Dim, Len(load))
        /\ Given("eps") => eng.eps = opts.eps
        /\ Given("relax") => eng.relax = opts.relax
        /\ Given("maxiter") => eng.maxiter = opts.maxiter

\* C5 (as claimed): a solve with zero loading and zero yaw returns an=0, u4=1,
\* v4=0, dp=0 and converged=true, on any model.
C5_ZeroLoading ==
  (Done /\ AllEq(load, 0) /\ yaw = "zero" /\ opts.supplied = {}) =>
     /\ AllEq(rec.an, 0) /\ AllEq(rec.u4, Num(1))
     /\ AllEq(rec.v4, 0) /\ AllEq(rec.dp, 0)
     /\ rec.converged = TRUE

\* C6 (as claimed): solve(Ctprime, yaw=0) returns a record whose v4 is exactly 0.
C6_ZeroYawV4Zero == (Done /\ yaw = "zero") => AllEq(rec.v4, 0)

\* C6 (amended): with yaw=0 and an initial guess whose v4 is 0 (each model's
\* own guess), v4 is exactly 0 or not-a-number at every iterate and in the
\* record: it is 0 wherever the solve kept a number, and not-a-number in every
\* annulus when Heck or UnifiedMomentum report converged=false.
C6_ZeroYawV4ZeroOrNaN ==
  /\ (Done /\ model = "LimitedHeck" /\ yaw = "zero") => AllEq(rec.v4, 0)
  /\ (HasEngine /\ yaw = "zero" /\ AllEq(eng.x0[3], 0)) =>
        /\ ZeroOrNaN(eng.x[3])
        /\ Done => ZeroOrNaN(rec.v4)
        /\ (Done /\ rec.converged /\ ~AnyNaN(eng.x)) => AllEq(rec.v4, 0)
        /\ (Done /\ ~rec.converged /\ model # "ThrustBasedUnified") => AllNaN(rec.v4)

\* C6's case: an unyawed solve that iterated more than once, converged and
\* returned a zero lateral velocity.
C6_Witness ==
  /\ Done /\ yaw = "zero" /\ model \in Iterative
  /\ AllEq(eng.x0[3], 0) /\ eng.niter > 1 /\ rec.converged
  /\ eng.x # eng.x0 /\ AllEq(rec.v4, 0)

\* An upper bound on the steps a solve has left: one per pass the engine may
\* still make, one to give up, one to build the record.
C7_StepsLeft ==
  IF pc = "call" THEN ThrustMaxiterDefault + 3
  ELSE IF pc = "iterate" THEN (eng.maxiter - eng.niter) + 2
  ELSE IF pc = "return" THEN 1
  ELSE 0

C7_EngineState ==
  HasEngine =>
       /\ eng.niter <= eng.maxiter
       /\ nresid = eng.niter
       /\ pc \in {"return", "done"} =>
            /\ eng.converged <=>
                 (eng.res # <<>> /\ \A k \in 1..Len(eng.res) :
                     \A i \in 1..Len(eng.res[k]) : Lt(Abs(eng.res[k][i]), eng.eps))
            /\ ~eng.converged => eng.niter = eng.maxiter
            /\ AnyNaN(eng.res) => ~eng.converged

\* C7: the engine makes at most maxiter passes and every solve ends: each step
\* uses up one of the finitely many steps left.  The engine reports
\* converged=true exactly when the last residual was below eps, and
\* converged=false with niter = maxiter otherwise, in particular whenever the
\* last residual holds a not-a-number.
C7_EngineTerminates ==
  /\ []C7_EngineState
  /\ [][C7_StepsLeft' < C7_StepsLeft]_vars

\* C7's case: the engine ran out of passes on a not-a-number residual.
C7_Witness ==
  /\ pc = "return" /\ ~eng.converged
  /\ eng.maxiter > 0 /\ eng.niter = eng.maxiter /\ AnyNaN(eng.res)

\* C8: ThrustBasedUnified.solve returns the engine's final iterate as an, u4,
\* v4, dp, Ctprime whether or not it converged, with the engine's converged and
\* niter, and dp_NL at its default 0.
C8_ThrustRecordIsRawIterate ==
  (Done /\ model = "ThrustBasedUnified") =>
     /\ rec.an = eng.x[1] /\ rec.u4 = eng.x[2] /\ rec.v4 = eng.x[3]
     /\ rec.dp = eng.x[4] /\ rec.Ctprime = eng.x[5]
     /\ rec.converged = eng.converged /\ rec.niter = eng.niter
     /\ rec.dp_NL = DefaultDpNL

\* C8's case: a thrust-based solve cut short after some passes, returning the
\* unconverged, moved iterate.
C8_Witness ==
  /\ Done /\ model = "ThrustBasedUnified"
  /\ ~rec.converged /\ eng.niter > 0 /\ eng.x # eng.x0
  /\ rec.an = eng.x[1] /\ ~AllNaN(rec.an)

\* C9 (as claimed): in a solve of either unified-family model get_pressure is
\* called once per residual evaluation and once more at the end, with the
\* returned state, so calls = residual evaluations + 1.
C9_PressureCallsFamily ==
  (Done /\ model \in UnifiedFamily) =>
     /\ pcalls = nresid + 1
     /\ lastcall = PressureArgs(rec.Ctprime, yaw, rec.an, rec.u4)

\* C9 (amended): while iterating, get_pressure calls = residual evaluations in
\* both models; UnifiedMomentum.solve makes one more call after the engine
\* returns, converged or not, with the state the record holds, and its result is
\* dp_NL; ThrustBasedUnified.solve makes no further call.
C9_PressureCalls ==
  /\ (model \in UnifiedFamily /\ pc \in {"iterate", "return"}) => pcalls = nresid
  /\ (Done /\ model = "UnifiedMomentum") =>
        /\ pcalls = nresid + 1
        /\ lastcall = PressureArgs(load, yaw, rec.an, rec.u4)
        /\ rec.dp_NL = GetPressure(lastcall, pfield)
  /\ (Done /\ model = "ThrustBasedUnified") =>
        /\ pcalls = nresid
        /\ rec.dp_NL = DefaultDpNL

\* C9's case: a unified solve that converged after several residual
\* evaluations and made its extra call.
C9_Witness ==
  /\ Done /\ model = "UnifiedMomentum" /\ rec.converged
  /\ nresid > 1 /\ pcalls = nresid + 1
  /\ rec.dp_NL = Fill(Len(load), pfield)

\* C10: in an array-valued Heck or UnifiedMomentum solve, converged and niter
\* are one value each for the call; on converged=false every annulus's state is
\* not-a-number, on converged=true every annulus keeps the engine's state.
C10_AllOrNothing ==
  (Done /\ model \in {"Heck", "UnifiedMomentum"}) =>
     /\ rec.converged \in BOOLEAN /\ rec.niter \in Nat
     /\ ~rec.converged =>
          \A i \in 1..Len(load) :
             /\ IsNaN(rec.an[i]) /\ IsNaN(rec.u4[i]) /\ IsNaN(rec.v4[i])
             /\ model = "UnifiedMomentum" => IsNaN(rec.dp[i])
     /\ rec.converged =>
          \A i \in 1..Len(load) :
             /\ rec.an[i] = eng.x[1][i] /\ rec.u4[i] = eng.x[2][i]
             /\ rec.v4[i] = eng.x[3][i]
             /\ model = "UnifiedMomentum" => rec.dp[i] = eng.x[4][i]

\* C10's case: a two-annulus solve that failed although one annulus's own
\* residuals were below eps at a finite state, which the record replaced too.
C10_Witness ==
  /\ Done /\ model \in {"Heck", "UnifiedMomentum"} /\ Len(load) = 2
  /\ ~rec.converged
  /\ \E i \in 1..2 :
        /\ AnnulusBelow(eng.res, i, eng.eps)
        /\ \A k \in 1..Len(eng.x) : ~IsNaN(eng.x[k][i])
        /\ IsNaN(rec.an[i])

====
